---- MODULE Spec2Model ----
(***************************************************************************)
(* Model of app.py, a Streamlit script that drives a two-stage role-play   *)
(* dialogue through a LangChain ConversationChain.                         *)
(*                                                                         *)
(* Streamlit executes the script from top to bottom once per user          *)
(* interaction.  Only st.session_state survives from one run to the next;  *)
(* module-level names such as BRIEFS are bound again by every run.  A run  *)
(* is modelled as the sequence of the script's sections:                   *)
(*     ScriptStart  (lines 42-71 and the widget reads of 113-119, 168)     *)
(*     AddBrief     (lines 120-125)                                        *)
(*     StageChange  (lines 127-148)                                        *)
(*     MainArea     (lines 150-175, the Send handler)                      *)
(*     ResetButton  (lines 177-183)                                        *)
(*                                                                         *)
(* Text is a sequence of characters.  Long fixed texts of the source are   *)
(* abbreviated to one element each.                                        *)
(***************************************************************************)
EXTENDS Integers, Sequences, FiniteSets, TLC

\* ------------------------------------------------------------------ bounds
\* Largest number of messages a transcript may hold; a Send is offered only
\* while its two messages still fit.
MaxMsgs == 4

\* -------------------------------------------------------------- characters
SP == "SP"      \* a space
NL == "NL"      \* a newline
BS == "BS"      \* a backslash
SQ == "SQ"      \* a single quote
DQ == "DQ"      \* a double quote

Whitespace == {SP, NL}

\* str.strip(): drops leading and trailing whitespace.
RECURSIVE LStrip(_)
LStrip(s) ==
    IF s = <<>> THEN <<>>
    ELSE IF Head(s) \in Whitespace THEN LStrip(Tail(s)) ELSE s

RECURSIVE RStrip(_)
RStrip(s) ==
    IF s = <<>> THEN <<>>
    ELSE IF s[Len(s)] \in Whitespace THEN RStrip(SubSeq(s, 1, Len(s) - 1)) ELSE s

Strip(s) == RStrip(LStrip(s))

\* Truth value of a string: non-empty.
Truthy(s) == s # <<>>

\* ---------------------------------------------------------- fixed texts
\* BRIEFS as bound by lines 42-54.
IntroductoryBrief == <<"Introductory Brief">>
AlternateBrief == <<"Alternate Brief Example">>

DefaultBriefs ==
    [t \in {IntroductoryBrief, AlternateBrief} |->
        IF t = IntroductoryBrief
        THEN <<"Welcome to the medical simulation chatbot. ...">>
        ELSE <<"This is an alternative simulation briefing. ...">>]

PATIENT_PROFILE == <<"Patient Information: ... Diagnosis: Aortic Dissection.", NL>>

HISTORY_PROMPT ==
    <<"You are playing the role of a patient. ...", NL>>
    \o PATIENT_PROFILE
    \o <<NL, "Answer questions as the patient ... focus on the history-taking.", NL,
         "Chat History:", NL, "{chat_history}", NL,
         "User (Medical Student): ", "{human_input}", NL, "Patient:">>

EXAMINER_PROMPT ==
    <<"You are the examiner. ...", NL,
      "Your role is to assess the student doctor ... guide the conversation back.", NL,
      "Chat History:", NL, "{chat_history}", NL,
      "Examiner (You): ", "{human_input}", NL, "Examiner:">>

HistoryIntro ==
    <<"Hello, I", SQ, "m John. I", SQ, "ve been experiencing severe chest pain ...">>

ExaminerIntro ==
    <<"Hello, I", SQ, "m the examiner for today", SQ, "s session. ...">>

\* ------------------------------------------------------------ messages
AIMessage(c) == [type |-> "ai", content |-> c]
HumanMessage(c) == [type |-> "human", content |-> c]


\* ------------------------------------------------------------ rendering
\* repr() of a Python str: double quotes when the text holds a single quote
\* and no double quote, single quotes otherwise; the backslash, the newline
\* and the chosen quote are written as escape sequences.
QuoteFor(s) ==
    IF (\E i \in 1..Len(s) : s[i] = SQ) /\ ~(\E i \in 1..Len(s) : s[i] = DQ)
    THEN DQ ELSE SQ

EscapeChar(c, q) ==
    IF c = BS THEN <<BS, BS>>
    ELSE IF c = NL THEN <<BS, "n">>
    ELSE IF c = q THEN <<BS, q>>
    ELSE <<c>>

RECURSIVE Escape(_, _)
Escape(s, q) ==
    IF s = <<>> THEN <<>> ELSE EscapeChar(Head(s), q) \o Escape(Tail(s), q)

ReprStr(s) == <<QuoteFor(s)>> \o Escape(s, QuoteFor(s)) \o <<QuoteFor(s)>>

\* repr() of a message object: the class name and the content's repr (the
\* remaining fields, constant for every message, close the parenthesis).
ReprMessage(m) ==
    <<IF m.type = "ai" THEN "AIMessage(content=" ELSE "HumanMessage(content=">>
    \o ReprStr(m.content) \o <<")">>

\* str() of a list: the elements' repr, separated by ", ", in brackets.
RECURSIVE JoinRepr(_)
JoinRepr(msgs) ==
    IF msgs = <<>> THEN <<>>
    ELSE IF Len(msgs) = 1 THEN ReprMessage(msgs[1])
    ELSE ReprMessage(Head(msgs)) \o <<",", SP>> \o JoinRepr(Tail(msgs))

StrList(msgs) == <<"[">> \o JoinRepr(msgs) \o <<"]">>

\* ConversationBufferMemory(memory_key="chat_history", return_messages=True):
\* load_memory_variables hands the chain the list of message objects.
LoadMemoryVariables(buffer) == buffer

\* PromptTemplate.format: each placeholder of the template is replaced by
\* str() of its value; substituted text is not scanned again.
RECURSIVE Format(_, _, _)
Format(template, chat_history, human_input) ==
    IF template = <<>> THEN <<>>
    ELSE (IF Head(template) = "{chat_history}" THEN StrList(chat_history)
          ELSE IF Head(template) = "{human_input}" THEN human_input
          ELSE <<Head(template)>>)
         \o Format(Tail(template), chat_history, human_input)

\* ------------------------------------------------------ completion client
\* What the endpoint does with one POST: answers 2xx with a reply, answers
\* non-2xx, or the transport fails.
Replies == {<<"b">>, <<"b", NL, "b">>}

HttpBehaviours ==
    [outcome : {"ok"}, reply : Replies]
    \cup [outcome : {"ConnectionError", "HTTPError"}, reply : {<<>>}]

NoHttp == [outcome |-> "none", reply |-> <<>>]

\* Faulty variant of DeepSeekLLM._call: a failed request is sent a second time.
DeepSeekLLM_call_retrying(prompt, http) ==
    IF http.outcome = "ok"
    THEN [posted |-> <<prompt>>, raised |-> "none", text |-> http.reply]
    ELSE [posted |-> <<prompt, prompt>>, raised |-> http.outcome, text |-> <<>>]

\* DeepSeekLLM._call: one requests.post, raise_for_status, then the first
\* choice's content.  posted lists the prompts sent.
DeepSeekLLM_call(prompt, http) ==
    IF http.outcome = "ok"
    THEN [posted |-> <<prompt>>, raised |-> "none", text |-> http.reply]
    ELSE [posted |-> <<prompt>>, raised |-> http.outcome, text |-> <<>>]

\* ----------------------------------------------------- conversation chain
NoChain == [memory |-> "None", prompt |-> <<>>]

\* create_chain: the chain keeps a reference to the current memory object
\* and the template.
create_chain(prompt, current) == [memory |-> current, prompt |-> prompt]

\* Faulty variant of save_context: stores the stripped input.
save_context_stripped(buffer, human_input, response) ==
    buffer \o <<HumanMessage(Strip(human_input)), AIMessage(response)>>

\* ConversationBufferMemory.save_context: the input, then the output.
save_context(buffer, human_input, response) ==
    buffer \o <<HumanMessage(human_input), AIMessage(response)>>

\* Faulty variant of predict: records the user's message before the call, so
\* that a failed call leaves it in the memory.
predict_saving_input_first(chain, buffer, human_input, http) ==
    LET prompt == Format(chain.prompt, LoadMemoryVariables(buffer), human_input)
        call == DeepSeekLLM_call(prompt, http)
    IN  [posted |-> call.posted,
         raised |-> call.raised,
         response |-> call.text,
         buffer |-> IF call.raised = "none"
                    THEN save_context(buffer, human_input, call.text)
                    ELSE buffer \o <<HumanMessage(human_input)>>]

\* ConversationChain.predict on a memory holding buffer: load the memory,
\* format the prompt, call the model and, when the call returned, save the
\* exchange.  An exception of the call leaves before save_context.
predict(chain, buffer, human_input, http) ==
    LET prompt == Format(chain.prompt, LoadMemoryVariables(buffer), human_input)
        call == DeepSeekLLM_call(prompt, http)
    IN  [posted |-> call.posted,
         raised |-> call.raised,
         response |-> call.text,
         buffer |-> IF call.raised = "none"
                    THEN save_context(buffer, human_input, call.text)
                    ELSE buffer]

\* ------------------------------------------------------------------ state
VARIABLES
    pc,                 \* the section of the script the run is about to execute
    simulation_stage,   \* this run's value of the "Select Stage" radio
    clicked,            \* the button whose click started this run, or "none"
    new_brief_title,    \* this run's value of the "New Brief Title" input
    new_brief_text,     \* this run's value of the "New Brief Content" input
    user_input,         \* this run's value of the "Your Input:" input
    http,               \* what the endpoint does with a POST of this run
    BRIEFS,             \* the module-level dict of this run
    history_memory,     \* st.session_state.history_memory.buffer
    examiner_memory,    \* st.session_state.examiner_memory.buffer
    current_stage,      \* st.session_state.current_stage
    current_memory,     \* st.session_state.current_memory, a reference
    conversation_chain, \* st.session_state.conversation_chain
    posted,             \* the prompts POSTed to the endpoint by this run
    raised,             \* the exception that ended this run, or "none"
    active_session,     \* the UI session whose state the variables above hold
    other_session       \* what Streamlit keeps for the other UI session

vars == <<pc, simulation_stage, clicked, new_brief_title, new_brief_text,
          user_input, http, BRIEFS, history_memory, examiner_memory,
          current_stage, current_memory, conversation_chain, posted, raised,
          active_session, other_session>>

widgets == <<simulation_stage, clicked, new_brief_title, new_brief_text,
             user_input, http>>

session == <<history_memory, examiner_memory, current_stage, current_memory,
             conversation_chain>>

sessions == <<active_session, other_session>>

\* A UI session that has not run the script yet: its st.session_state is
\* empty and its page shows no error.
FreshSession ==
    [history_memory |-> <<>>,
     examiner_memory |-> <<>>,
     current_stage |-> "unset",
     current_memory |-> "None",
     conversation_chain |-> NoChain,
     raised |-> "none"]

Stages == {"Brief", "History Taking", "Examiner"}
ChatStages == {"History Taking", "Examiner"}
Buttons == {"none", "Add Brief", "Send", "Reset Conversation"}

\* Texts the user types.
Titles == {<<>>, <<SP>>, <<"T">>, IntroductoryBrief}
Bodies == {<<>>, <<NL>>, <<"B">>}
Inputs == {<<>>, <<SP>>, <<SP, "a">>, <<"a", BS>>}

\* The memory object a reference denotes.
Deref(ref, hist, exam) ==
    IF ref = "history_memory" THEN hist
    ELSE IF ref = "examiner_memory" THEN exam
    ELSE <<>>

MemoryOf(stage) ==
    IF stage = "History Taking" THEN "history_memory"
    ELSE IF stage = "Examiner" THEN "examiner_memory"
    ELSE "None"

\* Before the first run st.session_state holds no current_stage; the two
\* memories are created empty by lines 68-71 of the first run.
Init ==
    /\ pc = "start"
    /\ simulation_stage = "Brief"
    /\ clicked = "none"
    /\ new_brief_title = <<>>
    /\ new_brief_text = <<>>
    /\ user_input = <<>>
    /\ http = NoHttp
    /\ BRIEFS = DefaultBriefs
    /\ history_memory = <<>>
    /\ examiner_memory = <<>>
    /\ current_stage = "unset"
    /\ current_memory = "None"
    /\ conversation_chain = NoChain
    /\ posted = <<>>
    /\ raised = "none"
    /\ active_session = 1
    /\ other_session = FreshSession

\* Faulty variant of Accepted: the input is not stripped before the test.
Accepted_without_strip(text) == Truthy(text)

\* Line 170: the input is accepted when something is left after strip().
Accepted(text) == Truthy(Strip(text))

\* A non-blank Send answered by the endpoint adds two messages (after the
\* opening message, when entering the stage adds one): it is offered only
\* while they fit in max messages.
Fits(sel, max) ==
    LET buffer == Deref(MemoryOf(sel), history_memory, examiner_memory)
        seeded == IF buffer = <<>> /\ current_stage # sel THEN 1 ELSE 0
    IN  Len(buffer) + seeded + 2 <= max

\* A user interaction starts a run: the widgets take their values and the
\* module-level statements bind BRIEFS again.  The first run of a session
\* has the radio's default and no click; a button can be clicked only if
\* the previous run rendered it (Send: lines 156-169; Reset Conversation:
\* line 178, not reached by a run that an exception ended).  The texts
\* typed, the endpoint's behaviours and the transcript bound are parameters.
ScriptStartWith(titles, bodies, inputs, behaviours, max) ==
    /\ pc = "start"
    /\ \E sel \in Stages, b \in Buttons :
        /\ current_stage = "unset" => (sel = "Brief" /\ b = "none")
        /\ b = "Send" => current_stage \in ChatStages
        /\ b = "Reset Conversation" => raised = "none"
        /\ simulation_stage' = sel
        /\ clicked' = b
        /\ IF b = "Add Brief"
           THEN /\ new_brief_title' \in titles
                /\ new_brief_text' \in bodies
           ELSE /\ new_brief_title' = <<>>
                /\ new_brief_text' = <<>>
        /\ IF b = "Send" /\ sel \in ChatStages
           THEN /\ user_input' \in inputs
                /\ http' \in behaviours
                /\ (Accepted(user_input') /\ http'.outcome = "ok") => Fits(sel, max)
           ELSE /\ user_input' = <<>>
                /\ http' = NoHttp
    /\ BRIEFS' = DefaultBriefs
    /\ posted' = <<>>
    /\ raised' = "none"
    /\ pc' = "sidebar"
    /\ UNCHANGED <<session, sessions>>

ScriptStart == ScriptStartWith(Titles, Bodies, Inputs, HttpBehaviours, MaxMsgs)

\* Lines 120-125: the Add Brief handler.
AddBrief ==
    /\ pc = "sidebar"
    /\ IF clicked = "Add Brief"
          /\ Truthy(Strip(new_brief_title)) /\ Truthy(Strip(new_brief_text))
       THEN BRIEFS' = [t \in DOMAIN BRIEFS \cup {new_brief_title} |->
                          IF t = new_brief_title THEN new_brief_text ELSE BRIEFS[t]]
       ELSE BRIEFS' = BRIEFS
    /\ pc' = "stage"
    /\ UNCHANGED <<widgets, session, posted, raised, sessions>>

\* Faulty variant of Seed: adds the opening message on every entry.
Seed_always_appending(buffer, intro) == buffer \o <<AIMessage(intro)>>

\* Faulty variant of Seed: entering a stage starts its conversation afresh.
Seed_resetting(buffer, intro) == <<AIMessage(intro)>>

\* Lines 134-137 and 142-145: the opening message, if the memory is empty.
Seed(buffer, intro) ==
    IF buffer = <<>> THEN <<AIMessage(intro)>> ELSE buffer

\* Faulty variant of ChainFor: both chat stages are given the history prompt.
ChainFor_one_prompt(stage) ==
    IF stage = "History Taking" THEN create_chain(HISTORY_PROMPT, "history_memory")
    ELSE IF stage = "Examiner" THEN create_chain(HISTORY_PROMPT, "examiner_memory")
    ELSE NoChain

\* Faulty variant of ChainFor: both chat stages are given the history memory.
ChainFor_one_memory(stage) ==
    IF stage = "History Taking" THEN create_chain(HISTORY_PROMPT, "history_memory")
    ELSE IF stage = "Examiner" THEN create_chain(EXAMINER_PROMPT, "history_memory")
    ELSE NoChain

\* Lines 131-132, 139-140, 147-148: the memory reference and the chain of
\* a stage.
ChainFor(stage) ==
    IF stage = "History Taking" THEN create_chain(HISTORY_PROMPT, "history_memory")
    ELSE IF stage = "Examiner" THEN create_chain(EXAMINER_PROMPT, "examiner_memory")
    ELSE NoChain

\* Lines 127-148: the stage-change block.
StageChange ==
    /\ pc = "stage"
    /\ IF current_stage = "unset" \/ current_stage # simulation_stage
       THEN /\ current_stage' = simulation_stage
            /\ current_memory' = ChainFor(simulation_stage).memory
            /\ conversation_chain' = ChainFor(simulation_stage)
            /\ history_memory' =
                 IF simulation_stage = "History Taking"
                 THEN Seed(history_memory, HistoryIntro) ELSE history_memory
            /\ examiner_memory' =
                 IF simulation_stage = "Examiner"
                 THEN Seed(examiner_memory, ExaminerIntro) ELSE examiner_memory
       ELSE UNCHANGED session
    /\ pc' = "main"
    /\ UNCHANGED <<widgets, BRIEFS, posted, raised, sessions>>

\* Lines 150-175: the stage's page; in a chat stage, the Send handler.  A
\* predict on a chain that is None raises AttributeError.  An exception
\* ends the run: the rest of the script is not executed.
MainArea ==
    /\ pc = "main"
    /\ IF simulation_stage \in ChatStages /\ clicked = "Send" /\ Accepted(user_input)
       THEN IF conversation_chain = NoChain
            THEN /\ raised' = "AttributeError"
                 /\ UNCHANGED <<history_memory, examiner_memory, posted>>
            ELSE LET ref == conversation_chain.memory
                     res == predict(conversation_chain,
                                    Deref(ref, history_memory, examiner_memory),
                                    user_input, http)
                 IN  /\ posted' = posted \o res.posted
                     /\ raised' = res.raised
                     /\ history_memory' =
                          IF ref = "history_memory" THEN res.buffer ELSE history_memory
                     /\ examiner_memory' =
                          IF ref = "examiner_memory" THEN res.buffer ELSE examiner_memory
       ELSE UNCHANGED <<history_memory, examiner_memory, posted, raised>>
    /\ pc' = IF raised' = "none" THEN "reset" ELSE "start"
    /\ UNCHANGED <<widgets, BRIEFS, current_stage, current_memory, conversation_chain,
                   sessions>>

\* Faulty variant of clear: the opening message is kept.
clear_keeping_opening(buffer) ==
    IF buffer = <<>> THEN <<>> ELSE <<Head(buffer)>>

\* ConversationBufferMemory.clear().
clear(buffer) == <<>>

\* Lines 177-183: the Reset Conversation handler; the run ends.
ResetButton ==
    /\ pc = "reset"
    /\ IF clicked = "Reset Conversation"
       THEN /\ history_memory' =
                 IF simulation_stage = "History Taking"
                 THEN clear(history_memory) ELSE history_memory
            /\ examiner_memory' =
                 IF simulation_stage = "Examiner"
                 THEN clear(examiner_memory) ELSE examiner_memory
       ELSE UNCHANGED <<history_memory, examiner_memory>>
    /\ pc' = "start"
    /\ UNCHANGED <<widgets, BRIEFS, current_stage, current_memory,
                   conversation_chain, posted, raised, sessions>>

Next == ScriptStart \/ AddBrief \/ StageChange \/ MainArea \/ ResetButton

Spec == Init /\ [][Next]_vars

\* ================================================================= claims
IsPrefix(a, b) == Len(a) <= Len(b) /\ SubSeq(b, 1, Len(a)) = a

\* The step about to be taken is the Send handler with an accepted input.
SendingStep(stage) ==
    /\ pc = "main"
    /\ simulation_stage = stage
    /\ clicked = "Send"
    /\ Accepted(user_input)

\* The step about to be taken is the Reset Conversation handler for stage.
ResettingStep(stage) ==
    /\ pc = "reset"
    /\ clicked = "Reset Conversation"
    /\ simulation_stage = stage

\* The step about to be taken is the stage-change block entering stage.
EnteringStep(stage) ==
    /\ pc = "stage"
    /\ current_stage # simulation_stage
    /\ simulation_stage = stage

C2_FailedSendKeepsTranscripts ==
    [][ \A stage \in ChatStages :
          (SendingStep(stage) /\ http.outcome # "ok") =>
              /\ history_memory' = history_memory
              /\ examiner_memory' = examiner_memory
              /\ raised' = http.outcome ]_vars

\* C2 witness: a run has been ended by a failed request sent from a
\* transcript that holds a conversation.
C2_Witness ==
    /\ pc = "start"
    /\ raised = "HTTPError"
    /\ Len(posted) = 1
    /\ simulation_stage = "History Taking"
    /\ Len(history_memory) = 3

\* C3: a Send with accepted input I whose call returns R leaves the active
\* stage's transcript equal to its previous content followed by (user, I) and
\* (assistant, R), and the other transcript as it was.
C3_SendAppendsExchange ==
    [][ /\ (SendingStep("History Taking") /\ http.outcome = "ok") =>
              history_memory' = history_memory
                  \o <<[type |-> "human", content |-> user_input],
                       [type |-> "ai", content |-> http.reply]>>
        /\ (SendingStep("Examiner") /\ http.outcome = "ok") =>
              examiner_memory' = examiner_memory
                  \o <<[type |-> "human", content |-> user_input],
                       [type |-> "ai", content |-> http.reply]>> ]_vars

\* C3 witness: the example of the specification: after selecting History
\* Taking and one Send, the transcript is [assistant:intro, user:I, assistant:R]
\* (here with an input that has a leading space).
C3_Witness ==
    /\ pc = "reset"
    /\ clicked = "Send"
    /\ user_input = <<SP, "a">>
    /\ history_memory = <<[type |-> "ai", content |-> HistoryIntro],
                          [type |-> "human", content |-> <<SP, "a">>],
                          [type |-> "ai", content |-> <<"b", NL, "b">>]>>

\* C4: a validation failure changes no state: a Send whose input is empty or
\* whitespace-only posts nothing and leaves both transcripts unchanged; an
\* Add Brief whose title or body is empty or whitespace-only leaves BRIEFS
\* unchanged.
C4_ValidationFailureChangesNothing ==
    [][ /\ (/\ pc = "main"
            /\ simulation_stage \in ChatStages
            /\ clicked = "Send"
            /\ Strip(user_input) = <<>>) =>
              /\ posted' = posted
              /\ history_memory' = history_memory
              /\ examiner_memory' = examiner_memory
              /\ raised' = "none"
        /\ (/\ pc = "sidebar"
            /\ clicked = "Add Brief"
            /\ (Strip(new_brief_title) = <<>> \/ Strip(new_brief_text) = <<>>)) =>
              /\ BRIEFS' = BRIEFS
              /\ UNCHANGED session ]_vars

\* C4 witness: a run with a whitespace-only Send has passed the Send handler
\* with a conversation in the transcript and nothing posted.
C4_Witness ==
    /\ pc = "reset"
    /\ clicked = "Send"
    /\ user_input = <<SP>>
    /\ simulation_stage = "History Taking"
    /\ Len(history_memory) = 3
    /\ posted = <<>>

\* C5: briefs are add-only for the life of the process: an entry of BRIEFS
\* is in BRIEFS after every step, across runs, with the same body unless the
\* step is a successful Add Brief of the same title.
C5_BriefsAddOnly ==
    [][ \A t \in DOMAIN BRIEFS :
          /\ t \in DOMAIN BRIEFS'
          /\ \/ BRIEFS'[t] = BRIEFS[t]
             \/ (pc = "sidebar" /\ clicked = "Add Brief" /\ new_brief_title = t) ]_vars

C7_ResetEmptiesTranscript ==
    [][ /\ ResettingStep("History Taking") => history_memory' = <<>>
        /\ ResettingStep("Examiner") => examiner_memory' = <<>> ]_vars

\* C7 witness: a run that reset the examiner transcript has ended; the
\* history transcript still holds its conversation.
C7_Witness ==
    /\ pc = "start"
    /\ clicked = "Reset Conversation"
    /\ simulation_stage = "Examiner"
    /\ examiner_memory = <<>>
    /\ Len(history_memory) = 3

\* The run has executed its stage-change block.
PastStageChange ==
    pc \in {"main", "reset"} \/ (pc = "start" /\ current_stage # "unset")

\* C8: once a run has executed its stage-change block, and so at the Send
\* handler and at the end of every run, the stored stage is the selected one
\* and the memory reference and the chain agree with it: both are None
\* exactly in Brief; History Taking has the history memory and the history
\* prompt, Examiner the examiner memory and the examiner prompt.  No Send
\* meets a chain that is None.
C8_PointerAndChainAgreeWithStage ==
    /\ PastStageChange =>
          /\ current_stage = simulation_stage
          /\ (current_memory = "None") <=> (current_stage = "Brief")
          /\ (conversation_chain = NoChain) <=> (current_stage = "Brief")
          /\ current_stage = "History Taking" =>
                /\ current_memory = "history_memory"
                /\ conversation_chain =
                      [memory |-> "history_memory", prompt |-> HISTORY_PROMPT]
          /\ current_stage = "Examiner" =>
                /\ current_memory = "examiner_memory"
                /\ conversation_chain =
                      [memory |-> "examiner_memory", prompt |-> EXAMINER_PROMPT]
    /\ raised # "AttributeError"

\* C8 witness: the Send handler is about to run for Examiner, selected in
\* this very run while History Taking was the stored stage before.
C8_Witness ==
    /\ pc = "main"
    /\ clicked = "Send"
    /\ Accepted(user_input)
    /\ simulation_stage = "Examiner"
    /\ Len(examiner_memory) = 1
    /\ Len(history_memory) = 3

\* C9: a run posts one request if it is a Send with accepted input in a chat
\* stage, whether the request succeeds or fails, and none otherwise; before
\* its Send handler a run has posted nothing.
C9_OneRequestPerSend ==
    /\ pc \in {"sidebar", "stage", "main"} => posted = <<>>
    /\ pc \in {"reset", "start"} =>
          Len(posted) = IF /\ simulation_stage \in ChatStages
                           /\ clicked = "Send"
                           /\ Accepted(user_input)
                        THEN 1 ELSE 0

\* C9 witness: a Send whose request failed has ended its run with exactly
\* one request posted.
C9_Witness ==
    /\ pc = "start"
    /\ clicked = "Send"
    /\ raised = "ConnectionError"
    /\ Len(posted) = 1

\* The least position from which pat occurs in text at or after from; 0 if
\* there is none.
RECURSIVE Find(_, _, _)
Find(text, pat, from) ==
    IF from + Len(pat) - 1 > Len(text) THEN 0
    ELSE IF SubSeq(text, from, from + Len(pat) - 1) = pat THEN from
    ELSE Find(text, pat, from + 1)

\* The texts of pats occur in text one after the other, from position from.
RECURSIVE OccurInOrder(_, _, _)
OccurInOrder(text, pats, from) ==
    IF pats = <<>> THEN TRUE
    ELSE LET at == Find(text, Head(pats), from)
         IN  at # 0 /\ OccurInOrder(text, Tail(pats), at + Len(Head(pats)))

\* The part of a template before the chat history.
RECURSIVE Instructions(_)
Instructions(template) ==
    IF template = <<>> \/ Head(template) = "{chat_history}" THEN <<>>
    ELSE <<Head(template)>> \o Instructions(Tail(template))

Contents(msgs) == [i \in 1..Len(msgs) |-> msgs[i].content]

PromptOf(stage) == IF stage = "History Taking" THEN HISTORY_PROMPT ELSE EXAMINER_PROMPT

\* C10: the prompt posted by a Send with input I from a transcript M1..Mk
\* holds the stage's instructions (with the patient profile for History
\* Taking), then the text of M1..Mk verbatim in transcript order, then I.
C10_PromptHoldsMessagesVerbatim ==
    [][ \A stage \in ChatStages :
          SendingStep(stage) =>
            LET before == Deref(MemoryOf(stage), history_memory, examiner_memory)
            IN  /\ Len(posted') = 1
                /\ OccurInOrder(posted'[1],
                                <<Instructions(PromptOf(stage))>>
                                    \o Contents(before) \o <<user_input>>,
                                1) ]_vars

C12_TranscriptBeginsWithOpening ==
    /\ history_memory # <<>> =>
          history_memory[1] = [type |-> "ai", content |-> HistoryIntro]
    /\ examiner_memory # <<>> =>
          examiner_memory[1] = [type |-> "ai", content |-> ExaminerIntro]

\* Every user message of buffer is immediately followed by an assistant
\* message, and buffer does not end with a user message.
Answered(buffer) ==
    /\ \A i \in 1..Len(buffer) :
          buffer[i].type = "human" => (i < Len(buffer) /\ buffer[i + 1].type = "ai")
    /\ buffer # <<>> => buffer[Len(buffer)].type = "ai"

\* C13: no transcript holds an unanswered user turn: every user message is
\* immediately followed by an assistant message, so a non-empty transcript
\* ends with an assistant message.
C13_NoUnansweredUserTurn ==
    Answered(history_memory) /\ Answered(examiner_memory)

\* C13 witness: a failed Send has ended its run on an examiner transcript
\* that was reset before and holds one answered exchange.
C13_Witness ==
    /\ pc = "start"
    /\ clicked = "Send"
    /\ raised = "ConnectionError"
    /\ simulation_stage = "Examiner"
    /\ Len(examiner_memory) = 2
    /\ examiner_memory[1].type = "human"

\* The positions of buffer that hold the opening message intro.  In this
\* model only the seeding step writes an opening text: no element of Inputs
\* or Replies is one.
Openings(buffer, intro) ==
    {i \in 1..Len(buffer) : buffer[i] = [type |-> "ai", content |-> intro]}

\* C14: the opening message is never duplicated: each transcript holds at
\* most one message written by the seeding step and, if it holds one, it is
\* the first message.
C14_OpeningNotDuplicated ==
    /\ Openings(history_memory, HistoryIntro) \subseteq {1}
    /\ Openings(examiner_memory, ExaminerIntro) \subseteq {1}
    /\ Openings(history_memory, ExaminerIntro) = {}
    /\ Openings(examiner_memory, HistoryIntro) = {}

\* C14 witness: History Taking has been reset, used and entered again from
\* another stage: its transcript holds an exchange and no opening message.
C14_Witness ==
    /\ pc = "main"
    /\ clicked = "none"
    /\ simulation_stage = "History Taking"
    /\ Len(history_memory) = 2
    /\ history_memory[1].type = "human"
    /\ examiner_memory = <<[type |-> "ai", content |-> ExaminerIntro]>>

\* ----------------------------------------------------------- two sessions
\* Streamlit gives every UI session (browser tab) its own st.session_state
\* and runs the script for it with a module namespace and widget values of
\* its own, so between two runs a session consists of its st.session_state
\* and its page.  The variables hold the session whose run is modelled;
\* other_session holds the other one.

\* Bounds of the two-session specification.
MaxMsgsTwo == 3

TitlesTwo == {<<"T">>}
BodiesTwo == {<<"B">>}
InputsTwo == {<<"a", BS>>}
HttpBehavioursTwo ==
    {[outcome |-> "ok", reply |-> <<"b">>], [outcome |-> "HTTPError", reply |-> <<>>]}

\* What the session of the variables leaves behind when the other runs.
Parked ==
    [history_memory |-> history_memory,
     examiner_memory |-> examiner_memory,
     current_stage |-> current_stage,
     current_memory |-> current_memory,
     conversation_chain |-> conversation_chain,
     raised |-> raised]

\* Faulty variant of SessionState: the two memories are process-wide objects
\* shared by all sessions.
SessionState_shared_memories(own, last) ==
    [own EXCEPT !.history_memory = last.history_memory,
                !.examiner_memory = last.examiner_memory]

\* Lines 67-71: the st.session_state a session's run finds, given the state
\* it left itself (own) and the state of the session that ran last: its own,
\* whose memories were created by its own first run.
SessionState(own, last) == own

\* The other session becomes the one whose runs are taken.  Its radio shows
\* the stage it selected last; no button is clicked yet.
Switch ==
    /\ pc = "start"
    /\ active_session' = 3 - active_session
    /\ other_session' = Parked
    /\ LET found == SessionState(other_session, Parked)
       IN  /\ history_memory' = found.history_memory
           /\ examiner_memory' = found.examiner_memory
           /\ current_stage' = found.current_stage
           /\ current_memory' = found.current_memory
           /\ conversation_chain' = found.conversation_chain
           /\ raised' = found.raised
           /\ simulation_stage' = IF found.current_stage = "unset"
                                  THEN "Brief" ELSE found.current_stage
    /\ clicked' = "none"
    /\ new_brief_title' = <<>>
    /\ new_brief_text' = <<>>
    /\ user_input' = <<>>
    /\ http' = NoHttp
    /\ BRIEFS' = DefaultBriefs
    /\ posted' = <<>>
    /\ pc' = "start"

ScriptStartTwo ==
    ScriptStartWith(TitlesTwo, BodiesTwo, InputsTwo, HttpBehavioursTwo, MaxMsgsTwo)

NextTwo ==
    ScriptStartTwo \/ AddBrief \/ StageChange \/ MainArea \/ ResetButton \/ Switch

SpecTwo == Init /\ [][NextTwo]_vars

\* The transcripts, stored stage, memory reference and chain of session k.
View(k) ==
    IF active_session = k
    THEN [history_memory |-> history_memory,
          examiner_memory |-> examiner_memory,
          current_stage |-> current_stage,
          current_memory |-> current_memory,
          conversation_chain |-> conversation_chain]
    ELSE [history_memory |-> other_session.history_memory,
          examiner_memory |-> other_session.examiner_memory,
          current_stage |-> other_session.current_stage,
          current_memory |-> other_session.current_memory,
          conversation_chain |-> other_session.conversation_chain]

\* C15: with two UI sessions interleaving their runs, no step of a run of one
\* session (stage selection, Send, Reset, Add Brief) changes the other
\* session's transcripts, stored stage, memory reference or chain, and
\* passing from the runs of one session to those of the other changes
\* neither session's.
C15_SessionsIsolated ==
    [][ \A k \in {1, 2} :
          (k # active_session \/ active_session' # active_session) =>
              View(k)' = View(k) ]_vars

\* C15 witness: session 2 has just appended an exchange to its history
\* transcript while session 1, in Examiner, holds transcripts of its own.
C15_Witness ==
    /\ active_session = 2
    /\ pc = "reset"
    /\ clicked = "Send"
    /\ simulation_stage = "History Taking"
    /\ Len(history_memory) = 3
    /\ other_session.current_stage = "Examiner"
    /\ Len(other_session.history_memory) = 1
    /\ Len(other_session.examiner_memory) = 3

====
